---- MODULE Spec2Model ----
(***************************************************************************)
(* A model of xturing/engines/causal.py: CausalEngine (model/tokenizer     *)
(* initialisation, training_step, validation_step, save) and its subclass  *)
(* CausalLoraEngine (adapter injection).                                   *)
(*                                                                         *)
(* Python values are modelled as follows.  None is the string "None"; an   *)
(* attribute that was never assigned is Unset*.  Model and tokenizer       *)
(* objects are records that remember how they were obtained.  Calls into   *)
(* transformers / peft / torch / evaluate are recorded in call logs, and   *)
(* any of them may raise: which one does is an input of the action.        *)
(***************************************************************************)
EXTENDS Integers, Sequences, FiniteSets, TLC

VARIABLES pc, args, self, base, initLog, lastOp, raised, exc, nextId

vars == <<pc, args, self, base, initLog, lastOp, raised, exc, nextId>>

(* ------------------------------------------------------------------ *)
(* Bounds and program constants                                         *)
(* ------------------------------------------------------------------ *)

\* Number of token positions of a batch row.
SeqLen == 1

\* LoraConfig(r=8, lora_alpha=32, ...)
LoraR == 8
LoraAlpha == 32

\* Token ids of the (tiny) vocabulary.
Vocab == {0, 1}

(* ------------------------------------------------------------------ *)
(* Python values                                                        *)
(* ------------------------------------------------------------------ *)

None == "None"

\* `if load_8bit:` on an Optional[bool]
Truthy(b) == b = "True"

BaseParams == {"wte", "h0"}
LoraParams == {"lora_A", "lora_B"}

NoAdapter == [r |-> 0, lora_alpha |-> 0, target_modules |-> None,
              lora_dropout |-> None, bias |-> None, task_type |-> None]

\* The Python object None, where a model is expected.
NoneModel == [kind |-> "None", via |-> None, ref |-> None, in8bit |-> FALSE,
              prepared |-> FALSE, params |-> {}, trainable |-> {},
              adapters |-> 0, peft_config |-> NoAdapter]
\* An attribute self.model that was never assigned.
UnsetModel == [NoneModel EXCEPT !.kind = "unset"]

NoneTok == [kind |-> "None", via |-> None, ref |-> None]
UnsetTok == [NoneTok EXCEPT !.kind = "unset"]

\* Objects a caller can pass as model= / tokenizer=.
CallerModel == [kind |-> "model", via |-> "caller", ref |-> "caller",
                in8bit |-> FALSE, prepared |-> FALSE, params |-> BaseParams,
                trainable |-> BaseParams, adapters |-> 0,
                peft_config |-> NoAdapter]
CallerTok == [kind |-> "tokenizer", via |-> "caller", ref |-> "caller"]

NoExc == [type |-> "none", by |-> "none", msg |-> ""]

(* ------------------------------------------------------------------ *)
(* The wrapped libraries                                                *)
(* ------------------------------------------------------------------ *)

\* AutoModelForCausalLM.from_pretrained(ref, torch_dtype=DEFAULT_DTYPE
\*     [, load_in_8bit=True, device_map="auto"])
FromPretrainedModel(ref, in8) ==
    [kind |-> "model", via |-> "from_pretrained", ref |-> ref,
     in8bit |-> in8, prepared |-> FALSE, params |-> BaseParams,
     trainable |-> BaseParams, adapters |-> 0, peft_config |-> NoAdapter]

\* peft.prepare_model_for_int8_training(model): freezes the base weights.
PrepareInt8(m) == [m EXCEPT !.prepared = TRUE, !.trainable = {}]

\* AutoTokenizer.from_pretrained(ref)
FromPretrainedTok(ref) ==
    [kind |-> "tokenizer", via |-> "from_pretrained", ref |-> ref]

\* peft.get_peft_model(model, peft_config) with bias="none": the wrapped
\* model's own parameters are frozen, the adapter's are trainable.
GetPeftModel(m, cfg) ==
    [m EXCEPT !.adapters = @ + 1, !.peft_config = cfg,
              !.params = @ \cup LoraParams, !.trainable = LoraParams]

\* One entry of a call log.
Call(fn, ref, obj, in8) == [fn |-> fn, ref |-> ref, obj |-> obj, in8 |-> in8]

LibExc(fn) == [type |-> "LibraryError", by |-> fn, msg |-> ""]

(* ------------------------------------------------------------------ *)
(* CausalEngine.__init__                                                *)
(* ------------------------------------------------------------------ *)

Classes == {"CausalEngine", "CausalLoraEngine"}
ModelNames == {None, "gpt2"}
\* "/ckpt" is an existing directory, "/missing" is not.
WeightsPaths == {None, "/ckpt", "/missing"}
Flags == {"True", "False"}

\* Path(weights_path).is_dir(); the assert on it is executed (the interpreter
\* runs without -O).
IsDir(p) == p = "/ckpt"

\* The keyword arguments of a constructor call.
\* CausalEngine takes no target_modules.
Args ==
    { a \in [cls : Classes, model_name : ModelNames,
             weights_path : WeightsPaths,
             model : {NoneModel, CallerModel},
             tokenizer : {NoneTok, CallerTok},
             load_8bit : Flags, target_modules : {None, "q_proj"}] :
        a.cls = "CausalEngine" => a.target_modules = None }

NoArgs ==
    [cls |-> None, model_name |-> None, weights_path |-> None,
     model |-> NoneModel, tokenizer |-> NoneTok, load_8bit |-> None,
     target_modules |-> None]

FP_MODEL == "AutoModelForCausalLM.from_pretrained"
PREPARE == "prepare_model_for_int8_training"
FP_TOK == "AutoTokenizer.from_pretrained"

\* Which library function raises when the constructor calls it ("none": none).
InitFaults == {"none", FP_MODEL, PREPARE, FP_TOK}

AssertionError ==
    [type |-> "AssertionError", by |-> "CausalEngine",
     msg |-> "The weights path should be a existing directory"]
ValueError ==
    [type |-> "ValueError", by |-> "CausalEngine",
     msg |-> "Please provide a model_name, the weights path or model and tokenizer."]

\* The fields of a freshly allocated engine, before __init__ assigns any.
NewSelf ==
    [model_name |-> "unset", model |-> UnsetModel, tokenizer |-> UnsetTok,
     loss_fct |-> 0, load_8bit |-> "unset"]

\* Propagate with a handler that wraps a library's exception in one of the
\* engine's own.
Propagate_Translate(e) ==
    IF e.type = "LibraryError"
    THEN [type |-> "RuntimeError", by |-> "CausalEngine", msg |-> e.by]
    ELSE e

\* An exception leaves a method as it was raised: no method of the engine has a
\* try/except around its calls.
Propagate(e) == e

\* LoadFrom without the assignment of self.tokenizer.
LoadFrom_NoTokenizer(s, ref, l8, fault) ==
    LET in8 == Truthy(l8)
        c1 == Call(FP_MODEL, ref, NoneModel, in8)
        m1 == FromPretrainedModel(ref, in8)
        c2 == Call(PREPARE, None, m1, FALSE)
        m2 == IF in8 THEN PrepareInt8(m1) ELSE m1
        c3 == Call(FP_TOK, ref, NoneModel, FALSE)
        pre == IF in8 THEN <<c1, c2>> ELSE <<c1>>
    IN  IF fault = FP_MODEL
        THEN [self |-> s, log |-> <<c1>>, raised |-> LibExc(FP_MODEL)]
        ELSE IF in8 /\ fault = PREPARE
        THEN [self |-> [s EXCEPT !.model = m1], log |-> <<c1, c2>>,
              raised |-> LibExc(PREPARE)]
        ELSE IF fault = FP_TOK
        THEN [self |-> [s EXCEPT !.model = m2], log |-> pre \o <<c3>>,
              raised |-> LibExc(FP_TOK)]
        ELSE [self |-> [s EXCEPT !.model = m2],
              log |-> pre \o <<c3>>, raised |-> NoExc]

\* Lines 30-42 and 47-59: load the model (8-bit, then prepared for int8
\* training, or full precision) and the tokenizer from `ref`.
LoadFrom(s, ref, l8, fault) ==
    LET in8 == Truthy(l8)
        c1 == Call(FP_MODEL, ref, NoneModel, in8)
        m1 == FromPretrainedModel(ref, in8)
        c2 == Call(PREPARE, None, m1, FALSE)
        m2 == IF in8 THEN PrepareInt8(m1) ELSE m1
        c3 == Call(FP_TOK, ref, NoneModel, FALSE)
        pre == IF in8 THEN <<c1, c2>> ELSE <<c1>>
    IN  IF fault = FP_MODEL
        THEN [self |-> s, log |-> <<c1>>, raised |-> LibExc(FP_MODEL)]
        ELSE IF in8 /\ fault = PREPARE
        THEN [self |-> [s EXCEPT !.model = m1], log |-> <<c1, c2>>,
              raised |-> LibExc(PREPARE)]
        ELSE IF fault = FP_TOK
        THEN [self |-> [s EXCEPT !.model = m2], log |-> pre \o <<c3>>,
              raised |-> LibExc(FP_TOK)]
        ELSE [self |-> [s EXCEPT !.model = m2,
                                 !.tokenizer = FromPretrainedTok(ref)],
              log |-> pre \o <<c3>>, raised |-> NoExc]

\* BaseInit with `or` for the `and` of line 43: one of model and tokenizer is
\* enough to take the adoption branch.
BaseInit_OrAdopt(a, fault, id) ==
    LET s0 == [NewSelf EXCEPT !.model_name = a.model_name]
        r == IF a.weights_path # None
             THEN IF ~IsDir(a.weights_path)
                  THEN [self |-> s0, log |-> <<>>, raised |-> AssertionError]
                  ELSE LoadFrom(s0, a.weights_path, a.load_8bit, fault)
             ELSE IF a.model # NoneModel \/ a.tokenizer # NoneTok
             THEN [self |-> [s0 EXCEPT !.model = a.model,
                                       !.tokenizer = a.tokenizer],
                   log |-> <<>>, raised |-> NoExc]
             ELSE IF a.model_name # None
             THEN LoadFrom(s0, a.model_name, a.load_8bit, fault)
             ELSE [self |-> s0, log |-> <<>>, raised |-> ValueError]
    IN  IF r.raised # NoExc
        THEN r
        ELSE [r EXCEPT !.self.loss_fct = id, !.self.load_8bit = a.load_8bit]

\* BaseInit with the model_name branch tested before the model+tokenizer
\* branch.
BaseInit_NameFirst(a, fault, id) ==
    LET s0 == [NewSelf EXCEPT !.model_name = a.model_name]
        r == IF a.weights_path # None
             THEN IF ~IsDir(a.weights_path)
                  THEN [self |-> s0, log |-> <<>>, raised |-> AssertionError]
                  ELSE LoadFrom(s0, a.weights_path, a.load_8bit, fault)
             ELSE IF a.model_name # None
             THEN LoadFrom(s0, a.model_name, a.load_8bit, fault)
             ELSE IF a.model # NoneModel /\ a.tokenizer # NoneTok
             THEN [self |-> [s0 EXCEPT !.model = a.model,
                                       !.tokenizer = a.tokenizer],
                   log |-> <<>>, raised |-> NoExc]
             ELSE [self |-> s0, log |-> <<>>, raised |-> ValueError]
    IN  IF r.raised # NoExc
        THEN r
        ELSE [r EXCEPT !.self.loss_fct = id, !.self.load_8bit = a.load_8bit]

\* BaseInit storing False for the load_8bit argument.
BaseInit_DropFlag(a, fault, id) ==
    LET s0 == [NewSelf EXCEPT !.model_name = a.model_name]
        r == IF a.weights_path # None
             THEN IF ~IsDir(a.weights_path)
                  THEN [self |-> s0, log |-> <<>>, raised |-> AssertionError]
                  ELSE LoadFrom(s0, a.weights_path, a.load_8bit, fault)
             ELSE IF a.model # NoneModel /\ a.tokenizer # NoneTok
             THEN [self |-> [s0 EXCEPT !.model = a.model,
                                       !.tokenizer = a.tokenizer],
                   log |-> <<>>, raised |-> NoExc]
             ELSE IF a.model_name # None
             THEN LoadFrom(s0, a.model_name, a.load_8bit, fault)
             ELSE [self |-> s0, log |-> <<>>, raised |-> ValueError]
    IN  IF r.raised # NoExc
        THEN r
        ELSE [r EXCEPT !.self.loss_fct = id, !.self.load_8bit = "False"]

\* CausalEngine.__init__(model_name, weights_path, model, tokenizer, load_8bit)
\* on a new object; `id` is the identity of the CrossEntropyLoss() it creates.
BaseInit(a, fault, id) ==
    LET s0 == [NewSelf EXCEPT !.model_name = a.model_name]
        r == IF a.weights_path # None
             THEN IF ~IsDir(a.weights_path)
                  THEN [self |-> s0, log |-> <<>>, raised |-> AssertionError]
                  ELSE LoadFrom(s0, a.weights_path, a.load_8bit, fault)
             ELSE IF a.model # NoneModel /\ a.tokenizer # NoneTok
             THEN [self |-> [s0 EXCEPT !.model = a.model,
                                       !.tokenizer = a.tokenizer],
                   log |-> <<>>, raised |-> NoExc]
             ELSE IF a.model_name # None
             THEN LoadFrom(s0, a.model_name, a.load_8bit, fault)
             ELSE [self |-> s0, log |-> <<>>, raised |-> ValueError]
    IN  IF r.raised # NoExc
        THEN r
        ELSE [r EXCEPT !.self.loss_fct = id, !.self.load_8bit = a.load_8bit]

\* A value a method returns: nothing yet, a loss, or a metric's result.
NoRet == [kind |-> "none", of |-> <<>>, num |-> 0, den |-> 1]

\* What the last method call did: the batch's keys (and labels), the calls it
\* made in order, whether the forward pass ran under autocast, the
\* attention_mask and the loss mask it passed, and what it returned.
NoOp ==
    [op |-> "none", keys |-> {}, calls |-> <<>>, autocast |-> FALSE,
     attn |-> None, loss_mask |-> None, preds |-> <<>>, labels |-> <<>>,
     ret |-> NoRet]

Init ==
    /\ pc = "new"
    /\ args = NoArgs
    /\ self = NewSelf
    /\ base = NewSelf
    /\ initLog = <<>>
    /\ lastOp = NoOp
    /\ raised = NoExc
    /\ exc = NoExc
    /\ nextId = 1

\* A constructor call: CausalEngine(...) in full, or CausalLoraEngine(...) up to
\* the return of super().__init__(...).
CausalEngineInit ==
    /\ pc = "new"
    /\ \E a \in Args, fault \in InitFaults :
         LET r == BaseInit(a, fault, nextId)
         IN  /\ args' = a
             /\ self' = r.self
             /\ base' = r.self
             /\ initLog' = r.log
             /\ raised' = r.raised
             /\ exc' = Propagate(r.raised)
             /\ nextId' = IF r.raised = NoExc THEN nextId + 1 ELSE nextId
             /\ pc' = IF r.raised # NoExc THEN "failed"
                      ELSE IF a.cls = "CausalLoraEngine" THEN "lora_init"
                      ELSE "constructed"
    /\ UNCHANGED lastOp

(* ------------------------------------------------------------------ *)
(* CausalLoraEngine.__init__, after super().__init__ has returned        *)
(* ------------------------------------------------------------------ *)

LORA_CONFIG == "LoraConfig"
GET_PEFT == "get_peft_model"
PRINT_TRAINABLE == "print_trainable_parameters"

LoraFaults == {"none", LORA_CONFIG, GET_PEFT, PRINT_TRAINABLE}

\* LoraConfig(r=8, lora_alpha=32, target_modules=target_modules,
\*            lora_dropout=0.05, bias="none", task_type="CAUSAL_LM")
PeftConfig(target_modules) ==
    [r |-> LoraR, lora_alpha |-> LoraAlpha, target_modules |-> target_modules,
     lora_dropout |-> "0.05", bias |-> "none", task_type |-> "CAUSAL_LM"]

\* LoraInit that also resets self.load_8bit.
LoraInit_ResetFlag(s, a, fault, id) ==
    LET cfg == PeftConfig(a.target_modules)
        c1 == Call(LORA_CONFIG, None, NoneModel, FALSE)
        c2 == Call(GET_PEFT, None, s.model, FALSE)
        m == GetPeftModel(s.model, cfg)
        c3 == Call(PRINT_TRAINABLE, None, m, FALSE)
    IN  IF fault = LORA_CONFIG
        THEN [self |-> s, log |-> <<c1>>, raised |-> LibExc(LORA_CONFIG)]
        ELSE IF fault = GET_PEFT
        THEN [self |-> s, log |-> <<c1, c2>>, raised |-> LibExc(GET_PEFT)]
        ELSE IF fault = PRINT_TRAINABLE
        THEN [self |-> [s EXCEPT !.model = m], log |-> <<c1, c2, c3>>,
              raised |-> LibExc(PRINT_TRAINABLE)]
        ELSE [self |-> [s EXCEPT !.model = m, !.loss_fct = id, !.load_8bit = "False"],
              log |-> <<c1, c2, c3>>, raised |-> NoExc]

\* LoraInit that drops the result of get_peft_model instead of assigning it
\* to self.model.
LoraInit_NoInject(s, a, fault, id) ==
    LET cfg == PeftConfig(a.target_modules)
        c1 == Call(LORA_CONFIG, None, NoneModel, FALSE)
        c2 == Call(GET_PEFT, None, s.model, FALSE)
        m == GetPeftModel(s.model, cfg)
        c3 == Call(PRINT_TRAINABLE, None, m, FALSE)
    IN  IF fault = LORA_CONFIG
        THEN [self |-> s, log |-> <<c1>>, raised |-> LibExc(LORA_CONFIG)]
        ELSE IF fault = GET_PEFT
        THEN [self |-> s, log |-> <<c1, c2>>, raised |-> LibExc(GET_PEFT)]
        ELSE IF fault = PRINT_TRAINABLE
        THEN [self |-> s, log |-> <<c1, c2, c3>>,
              raised |-> LibExc(PRINT_TRAINABLE)]
        ELSE [self |-> [s EXCEPT !.loss_fct = id],
              log |-> <<c1, c2, c3>>, raised |-> NoExc]

\* LoraInit that wraps the constructor's `model` argument instead of
\* self.model.
LoraInit_ArgModel(s, a, fault, id) ==
    LET cfg == PeftConfig(a.target_modules)
        c1 == Call(LORA_CONFIG, None, NoneModel, FALSE)
        c2 == Call(GET_PEFT, None, a.model, FALSE)
        m == GetPeftModel(a.model, cfg)
        c3 == Call(PRINT_TRAINABLE, None, m, FALSE)
    IN  IF fault = LORA_CONFIG
        THEN [self |-> s, log |-> <<c1>>, raised |-> LibExc(LORA_CONFIG)]
        ELSE IF fault = GET_PEFT
        THEN [self |-> s, log |-> <<c1, c2>>, raised |-> LibExc(GET_PEFT)]
        ELSE IF fault = PRINT_TRAINABLE
        THEN [self |-> [s EXCEPT !.model = m], log |-> <<c1, c2, c3>>,
              raised |-> LibExc(PRINT_TRAINABLE)]
        ELSE [self |-> [s EXCEPT !.model = m, !.loss_fct = id],
              log |-> <<c1, c2, c3>>, raised |-> NoExc]

\* Lines 126-138 on the fields `s` the base constructor left.
LoraInit(s, a, fault, id) ==
    LET cfg == PeftConfig(a.target_modules)
        c1 == Call(LORA_CONFIG, None, NoneModel, FALSE)
        c2 == Call(GET_PEFT, None, s.model, FALSE)
        m == GetPeftModel(s.model, cfg)
        c3 == Call(PRINT_TRAINABLE, None, m, FALSE)
    IN  IF fault = LORA_CONFIG
        THEN [self |-> s, log |-> <<c1>>, raised |-> LibExc(LORA_CONFIG)]
        ELSE IF fault = GET_PEFT
        THEN [self |-> s, log |-> <<c1, c2>>, raised |-> LibExc(GET_PEFT)]
        ELSE IF fault = PRINT_TRAINABLE
        THEN [self |-> [s EXCEPT !.model = m], log |-> <<c1, c2, c3>>,
              raised |-> LibExc(PRINT_TRAINABLE)]
        ELSE [self |-> [s EXCEPT !.model = m, !.loss_fct = id],
              log |-> <<c1, c2, c3>>, raised |-> NoExc]

CausalLoraEngineInit ==
    /\ pc = "lora_init"
    /\ \E fault \in LoraFaults :
         LET r == LoraInit(self, args, fault, nextId)
         IN  /\ self' = r.self
             /\ initLog' = initLog \o r.log
             /\ raised' = r.raised
             /\ exc' = Propagate(r.raised)
             /\ nextId' = IF r.raised = NoExc THEN nextId + 1 ELSE nextId
             /\ pc' = IF r.raised # NoExc THEN "failed" ELSE "constructed"
    /\ UNCHANGED <<args, base, lastOp>>

(* ------------------------------------------------------------------ *)
(* training_step, validation_step, save                                 *)
(* ------------------------------------------------------------------ *)

AUTOCAST == "torch.autocast"
FORWARD == "model.__call__"
LOSS == "loss_fct.__call__"
EVAL_LOAD == "evaluate.load"
ARGMAX == "torch.argmax"
COMPUTE == "metrics.compute"
SAVE_MODEL == "model.save_pretrained"
SAVE_TOK == "tokenizer.save_pretrained"

\* batch[k] for a key the batch does not hold
KeyError(k) == [type |-> "KeyError", by |-> "dict", msg |-> k]

\* batch.get("attention_mask", None)
GetAttentionMask(keys) ==
    IF "attention_mask" \in keys THEN "attention_mask" ELSE None

TrainKeys == {"input_ids", "attention_mask", "targets", "label_mask"}
TrainFaults == {"none", AUTOCAST, FORWARD, LOSS}

\* TrainingStep that passes mask=batch["label_mask"] unconditionally.
TrainingStep_AlwaysMask(s, keys, fault) ==
    LET ac == Truthy(s.load_8bit)
        o0 == [NoOp EXCEPT !.op = "training_step", !.keys = keys,
                           !.calls = IF ac THEN <<AUTOCAST>> ELSE <<>>]
        o1 == [o0 EXCEPT !.calls = @ \o <<FORWARD>>, !.autocast = ac,
                         !.attn = GetAttentionMask(keys)]
        mask == IF "label_mask" \in keys THEN "label_mask" ELSE "omitted"
        o2 == [o1 EXCEPT !.calls = @ \o <<LOSS>>, !.loss_mask = mask]
    IN  IF ac /\ fault = AUTOCAST
        THEN [o |-> o0, raised |-> LibExc(AUTOCAST)]
        ELSE IF "input_ids" \notin keys
        THEN [o |-> o0, raised |-> KeyError("input_ids")]
        ELSE IF fault = FORWARD
        THEN [o |-> o1, raised |-> LibExc(FORWARD)]
        ELSE IF "targets" \notin keys
        THEN [o |-> o1, raised |-> KeyError("targets")]
        ELSE IF "label_mask" \notin keys
        THEN [o |-> o1, raised |-> KeyError("label_mask")]
        ELSE IF fault = LOSS
        THEN [o |-> o2, raised |-> LibExc(LOSS)]
        ELSE [o |-> [o2 EXCEPT !.ret = [kind |-> "loss",
                                        of |-> <<"logits", "targets", mask>>,
                                        num |-> 0, den |-> 1]],
              raised |-> NoExc]

\* CausalEngine.training_step(batch), batch a dict with the keys `keys`.
TrainingStep(s, keys, fault) ==
    LET ac == Truthy(s.load_8bit)
        o0 == [NoOp EXCEPT !.op = "training_step", !.keys = keys,
                           !.calls = IF ac THEN <<AUTOCAST>> ELSE <<>>]
        o1 == [o0 EXCEPT !.calls = @ \o <<FORWARD>>, !.autocast = ac,
                         !.attn = GetAttentionMask(keys)]
        mask == IF "label_mask" \in keys THEN "label_mask" ELSE "omitted"
        o2 == [o1 EXCEPT !.calls = @ \o <<LOSS>>, !.loss_mask = mask]
    IN  IF ac /\ fault = AUTOCAST
        THEN [o |-> o0, raised |-> LibExc(AUTOCAST)]
        ELSE IF "input_ids" \notin keys
        THEN [o |-> o0, raised |-> KeyError("input_ids")]
        ELSE IF fault = FORWARD
        THEN [o |-> o1, raised |-> LibExc(FORWARD)]
        ELSE IF "targets" \notin keys
        THEN [o |-> o1, raised |-> KeyError("targets")]
        ELSE IF fault = LOSS
        THEN [o |-> o2, raised |-> LibExc(LOSS)]
        ELSE [o |-> [o2 EXCEPT !.ret = [kind |-> "loss",
                                        of |-> <<"logits", "targets", mask>>,
                                        num |-> 0, den |-> 1]],
              raised |-> NoExc]

training_step ==
    /\ pc = "constructed"
    /\ \E keys \in SUBSET TrainKeys, fault \in TrainFaults :
         LET r == TrainingStep(self, keys, fault)
         IN  /\ lastOp' = r.o
             /\ raised' = r.raised
             /\ exc' = Propagate(r.raised)
    /\ UNCHANGED <<pc, args, self, base, initLog, nextId>>

Positions == 1..SeqLen
Scores == {0, 1}
\* logits of one row: a score per position and token
LogitsSet == [Positions -> [Vocab -> Scores]]
LabelsSet == [Positions -> Vocab]

\* torch.argmax(logits, -1): per position, the first token of maximal score
ArgmaxRow(row) ==
    CHOOSE t \in Vocab :
        /\ \A u \in Vocab : row[u] <= row[t]
        /\ \A u \in Vocab : row[u] = row[t] => t <= u

Argmax(logits) == [p \in Positions |-> ArgmaxRow(logits[p])]

\* The accuracy metric: matching positions over all positions.
Accuracy(preds, refs) ==
    [kind |-> "metric", of |-> <<"accuracy">>,
     num |-> Cardinality({p \in DOMAIN preds : preds[p] = refs[p]}),
     den |-> Len(preds)]

TypeError ==
    [type |-> "TypeError", by |-> COMPUTE,
     msg |-> "compute() takes 1 positional argument but 3 were given"]

\* evaluate.EvaluationModule.compute(self, *, predictions=None,
\* references=None, **kwargs): keyword-only.
MetricsCompute(positional, predictions, references) ==
    IF positional # <<>>
    THEN [ret |-> NoRet, raised |-> TypeError]
    ELSE [ret |-> Accuracy(predictions, references), raised |-> NoExc]

ValKeys == {"input_ids", "attention_mask", "labels"}

\* The values batch["labels"] can have, and the logits the forward pass can
\* return (one representative where the step never reads them).
LabelsOf(keys) ==
    IF "labels" \in keys THEN LabelsSet ELSE {[p \in Positions |-> 0]}
LogitsOf(keys, fault) ==
    IF "input_ids" \in keys /\ fault = "none"
    THEN LogitsSet
    ELSE {[p \in Positions |-> [t \in Vocab |-> 0]]}
ValFaults == {"none", EVAL_LOAD, FORWARD, ARGMAX}

\* CausalEngine.validation_step(batch): `labels` is batch["labels"], `logits`
\* what the model returns for the batch.
ValidationStep(s, keys, labels, logits, fault) ==
    LET o0 == [NoOp EXCEPT !.op = "validation_step", !.keys = keys,
                           !.labels = IF "labels" \in keys THEN labels ELSE <<>>,
                           !.calls = <<EVAL_LOAD>>]
        o1 == [o0 EXCEPT !.calls = @ \o <<FORWARD>>,
                         !.attn = GetAttentionMask(keys)]
        o2 == [o1 EXCEPT !.calls = @ \o <<ARGMAX>>]
        preds == Argmax(logits)
        o3 == [o2 EXCEPT !.preds = preds]
        acc == MetricsCompute(<<preds, labels>>, <<>>, <<>>)
        o4 == [o3 EXCEPT !.calls = @ \o <<COMPUTE>>, !.ret = acc.ret]
    IN  IF fault = EVAL_LOAD
        THEN [o |-> o0, raised |-> LibExc(EVAL_LOAD)]
        ELSE IF "input_ids" \notin keys
        THEN [o |-> o0, raised |-> KeyError("input_ids")]
        ELSE IF fault = FORWARD
        THEN [o |-> o1, raised |-> LibExc(FORWARD)]
        ELSE IF fault = ARGMAX
        THEN [o |-> o2, raised |-> LibExc(ARGMAX)]
        ELSE IF "labels" \notin keys
        THEN [o |-> o3, raised |-> KeyError("labels")]
        ELSE [o |-> o4, raised |-> acc.raised]

validation_step ==
    /\ pc = "constructed"
    /\ \E keys \in SUBSET ValKeys, fault \in ValFaults :
       \E labels \in LabelsOf(keys), logits \in LogitsOf(keys, fault) :
         LET r == ValidationStep(self, keys, labels, logits, fault)
         IN  /\ lastOp' = r.o
             /\ raised' = r.raised
             /\ exc' = Propagate(r.raised)
    /\ UNCHANGED <<pc, args, self, base, initLog, nextId>>

SaveFaults == {"none", SAVE_MODEL, SAVE_TOK}

\* CausalEngine.save(saving_path)
Save(s, fault) ==
    LET o0 == [NoOp EXCEPT !.op = "save", !.calls = <<SAVE_MODEL>>]
        o1 == [o0 EXCEPT !.calls = @ \o <<SAVE_TOK>>]
    IN  IF fault = SAVE_MODEL
        THEN [o |-> o0, raised |-> LibExc(SAVE_MODEL)]
        ELSE IF fault = SAVE_TOK
        THEN [o |-> o1, raised |-> LibExc(SAVE_TOK)]
        ELSE [o |-> o1, raised |-> NoExc]

save ==
    /\ pc = "constructed"
    /\ \E fault \in SaveFaults :
         LET r == Save(self, fault)
         IN  /\ lastOp' = r.o
             /\ raised' = r.raised
             /\ exc' = Propagate(r.raised)
    /\ UNCHANGED <<pc, args, self, base, initLog, nextId>>

Next ==
    \/ CausalEngineInit
    \/ CausalLoraEngineInit
    \/ training_step
    \/ validation_step
    \/ save


Spec == Init /\ [][Next]_vars

(* ------------------------------------------------------------------ *)
(* Vocabulary of the properties                                         *)
(* ------------------------------------------------------------------ *)

\* A constructor has been called.
Called == pc # "new"

HasWeights == args.weights_path # None
HasObjects == args.model # NoneModel /\ args.tokenizer # NoneTok
HasName == args.model_name # None

\* The base constructor ran to its end (it assigns loss_fct last but one).
BaseDone == base.loss_fct # 0

\* The constructor call ended in an exception / in an exception of a library.
InitFailed == pc = "failed"
InitLibraryFailure == InitFailed /\ exc.type = "LibraryError"

\* Positions of the calls of `fn` in a call log.
CallsOf(log, fn) == {i \in DOMAIN log : log[i].fn = fn}
Count(calls, fn) == Cardinality({i \in DOMAIN calls : calls[i] = fn})

(* ------------------------------------------------------------------ *)
(* C1                                                                   *)
(* ------------------------------------------------------------------ *)

\* C1: a constructor call that supplies no weights_path, no model_name and not
\* both model and tokenizer ends in the documented ValueError; nothing was
\* loaded and no field beyond model_name was assigned (in particular not
\* loss_fct and load_8bit).
C1_NoSourceFails ==
    (Called /\ ~HasWeights /\ ~HasName /\ ~HasObjects) =>
        /\ pc = "failed"
        /\ exc = ValueError
        /\ initLog = <<>>
        /\ self.model = UnsetModel
        /\ self.tokenizer = UnsetTok
        /\ self.loss_fct = 0
        /\ self.load_8bit = "unset"

\* Reached: a model passed without a tokenizer (and nothing else) was refused.
C1_Witness ==
    /\ pc = "failed"
    /\ exc = ValueError
    /\ args.model = CallerModel
    /\ args.tokenizer = NoneTok
    /\ args.load_8bit = "True"

(* ------------------------------------------------------------------ *)
(* C2                                                                   *)
(* ------------------------------------------------------------------ *)

\* One of the three sources is valid.
ValidSource == (HasWeights /\ IsDir(args.weights_path)) \/ HasObjects \/ HasName

NonNullFields == self.model.kind = "model" /\ self.tokenizer.kind = "tokenizer"

\* C2 as stated: whenever one of the three sources is valid, whatever else is
\* passed, the constructor (its library calls returning) yields an engine with
\* a non-null model and tokenizer.
C2_AnyOtherArguments ==
    (Called /\ ValidSource /\ ~InitLibraryFailure) =>
        (~InitFailed /\ NonNullFields)

\* C2, amended: the same, provided weights_path is None or an existing
\* directory.
C2_ValidSourceConstructs ==
    (Called /\ ValidSource /\ ~InitLibraryFailure
        /\ (HasWeights => IsDir(args.weights_path))) =>
        (~InitFailed /\ NonNullFields)

\* Reached: an engine built from a directory in 8-bit mode, with every other
\* argument passed as well.
C2_Witness ==
    /\ pc = "constructed"
    /\ args.weights_path = "/ckpt"
    /\ HasObjects
    /\ HasName
    /\ args.load_8bit = "True"
    /\ NonNullFields

(* ------------------------------------------------------------------ *)
(* C3                                                                   *)
(* ------------------------------------------------------------------ *)

\* The source the precedence weights_path > model+tokenizer > model_name picks.
SelectedRef ==
    IF HasWeights THEN args.weights_path
    ELSE IF HasObjects THEN "caller"
    ELSE IF HasName THEN args.model_name
    ELSE None

\* C3: at most one loading mode runs, the model and the tokenizer come from the
\* same source, and that source and its precision are the ones the precedence
\* weights_path, model+tokenizer, model_name selects.
C3_OneModeByPrecedence ==
    Called =>
        /\ Cardinality(CallsOf(initLog, FP_MODEL)) <= 1
        /\ Cardinality(CallsOf(initLog, FP_TOK)) <= 1
        /\ Cardinality(CallsOf(initLog, PREPARE)) <= 1
        /\ \A i \in CallsOf(initLog, FP_MODEL) \cup CallsOf(initLog, FP_TOK) :
              /\ initLog[i].ref = SelectedRef
              /\ SelectedRef # "caller"
        /\ \A i \in CallsOf(initLog, FP_MODEL) :
              initLog[i].in8 = Truthy(args.load_8bit)
        /\ CallsOf(initLog, PREPARE) # {} =>
              /\ Truthy(args.load_8bit)
              /\ CallsOf(initLog, FP_MODEL) # {}
        /\ BaseDone =>
              /\ base.model.ref = SelectedRef
              /\ base.tokenizer.ref = SelectedRef
              /\ base.model.via = base.tokenizer.via
              /\ (base.model.via = "caller") = (SelectedRef = "caller")
              /\ (base.model.via = "caller") =>
                    /\ base.model = args.model
                    /\ base.tokenizer = args.tokenizer
                    /\ CallsOf(initLog, FP_MODEL) = {}
                    /\ CallsOf(initLog, FP_TOK) = {}
              /\ (base.model.via = "from_pretrained") =>
                    /\ base.model.in8bit = Truthy(args.load_8bit)
                    /\ base.model.prepared = Truthy(args.load_8bit)
                    /\ CallsOf(initLog, FP_MODEL) # {}
                    /\ CallsOf(initLog, FP_TOK) # {}

\* Reached: model and tokenizer were passed together with a model_name, and
\* the passed objects were adopted.
C3_Witness ==
    /\ pc = "constructed"
    /\ ~HasWeights
    /\ HasObjects
    /\ HasName
    /\ self.model.via = "caller"
    /\ initLog = <<>>

(* ------------------------------------------------------------------ *)
(* C4                                                                   *)
(* ------------------------------------------------------------------ *)

\* The base constructor has set the four fields of the engine.
FieldsSet == pc \in {"lora_init", "constructed"}

\* C4 as stated: once the base constructor has set the fields, no step changes
\* tokenizer, loss_fct or load_8bit, and the model changes only in the
\* CausalLoraEngine constructor.
C4_OnlyModelReassigned ==
    [][FieldsSet =>
          /\ self'.tokenizer = self.tokenizer
          /\ self'.loss_fct = self.loss_fct
          /\ self'.load_8bit = self.load_8bit
          /\ (self'.model # self.model => pc = "lora_init")]_vars

\* C4, amended: once the base constructor has set the fields, no step changes
\* tokenizer or load_8bit; the model and loss_fct change only in the
\* CausalLoraEngine constructor (which injects the adapter and then assigns a
\* new CrossEntropyLoss); training_step, validation_step and save change no
\* field.
C4_FieldsFrame ==
    [][FieldsSet =>
          /\ self'.tokenizer = self.tokenizer
          /\ self'.load_8bit = self.load_8bit
          /\ self'.model_name = self.model_name
          /\ (self'.model # self.model => pc = "lora_init")
          /\ (self'.loss_fct # self.loss_fct => pc = "lora_init")
          /\ (pc = "constructed" => self' = self)]_vars

\* Reached: a CausalLoraEngine, constructed and then used, whose model and
\* loss_fct are not the ones the base constructor assigned and whose other
\* fields are.
C4_Witness ==
    /\ pc = "constructed"
    /\ args.cls = "CausalLoraEngine"
    /\ lastOp.op = "save"
    /\ self.model # base.model
    /\ self.loss_fct # base.loss_fct
    /\ self.tokenizer = base.tokenizer
    /\ self.load_8bit = base.load_8bit

(* ------------------------------------------------------------------ *)
(* C5                                                                   *)
(* ------------------------------------------------------------------ *)

\* C5: training_step on a batch holding input_ids and targets makes at most
\* one forward pass and one loss call; unless a library call raises it makes
\* exactly one of each and returns the loss call's result on (logits,
\* targets); the loss call gets mask=batch["label_mask"] exactly when the batch
\* holds label_mask; a missing attention_mask is passed as None and raises
\* nothing.
C5_TrainingStepLoss ==
    (lastOp.op = "training_step" /\ {"input_ids", "targets"} \subseteq lastOp.keys) =>
        LET fw == Count(lastOp.calls, FORWARD)
            ls == Count(lastOp.calls, LOSS)
            mask == IF "label_mask" \in lastOp.keys THEN "label_mask"
                    ELSE "omitted"
        IN  /\ fw <= 1
            /\ ls <= 1
            /\ exc # NoExc => (exc.type = "LibraryError" /\ lastOp.ret = NoRet)
            /\ fw = 1 =>
                  lastOp.attn = IF "attention_mask" \in lastOp.keys
                                THEN "attention_mask" ELSE None
            /\ ls = 1 => (fw = 1 /\ lastOp.loss_mask = mask)
            /\ exc = NoExc =>
                  /\ fw = 1
                  /\ ls = 1
                  /\ lastOp.ret.kind = "loss"
                  /\ lastOp.ret.of = <<"logits", "targets", mask>>

\* Reached: a loss returned for a batch with neither label_mask nor
\* attention_mask.
C5_Witness ==
    /\ lastOp.op = "training_step"
    /\ lastOp.keys = {"input_ids", "targets"}
    /\ exc = NoExc
    /\ lastOp.ret.kind = "loss"
    /\ lastOp.loss_mask = "omitted"
    /\ lastOp.attn = None

(* ------------------------------------------------------------------ *)
(* C6                                                                   *)
(* ------------------------------------------------------------------ *)

\* C6: validation_step on a batch holding input_ids and labels returns, unless
\* the forward pass or a library call before it raises, the accuracy of the
\* argmax predictions against batch["labels"], a value in [0, 1].
C6_ValidationAccuracy ==
    (/\ lastOp.op = "validation_step"
     /\ {"input_ids", "labels"} \subseteq lastOp.keys
     /\ exc.type # "LibraryError") =>
        /\ exc = NoExc
        /\ lastOp.ret = Accuracy(lastOp.preds, lastOp.labels)
        /\ 0 <= lastOp.ret.num
        /\ lastOp.ret.num <= lastOp.ret.den
        /\ lastOp.ret.den > 0

(* ------------------------------------------------------------------ *)
(* C7                                                                   *)
(* ------------------------------------------------------------------ *)

LoraConstructed == pc = "constructed" /\ args.cls = "CausalLoraEngine"

\* C7: in every state after a CausalLoraEngine was constructed, no parameter
\* of the model the base constructor produced is trainable, and the trainable
\* parameters are exactly the ones the adapter added.
C7_OnlyAdapterTrainable ==
    LoraConstructed =>
        /\ base.model.params \cap self.model.trainable = {}
        /\ self.model.trainable = self.model.params \ base.model.params
        /\ self.model.trainable # {}

\* Reached: a CausalLoraEngine on a caller's model, all of whose parameters
\* were trainable, after a training step.
C7_Witness ==
    /\ LoraConstructed
    /\ base.model.via = "caller"
    /\ base.model.trainable = BaseParams
    /\ lastOp.op = "training_step"
    /\ self.model.trainable = LoraParams

(* ------------------------------------------------------------------ *)
(* C8                                                                   *)
(* ------------------------------------------------------------------ *)

\* The calls made by the operation that ended last.
LastCalls ==
    IF lastOp.op = "none"
    THEN [i \in DOMAIN initLog |-> initLog[i].fn]
    ELSE lastOp.calls

\* An exception raised by a library leaves the operation as it was raised, the
\* call that raised it was the operation's last and only call of that
\* function, and the operation returned nothing.
LibraryFailuresPropagate ==
    /\ exc = raised
    /\ raised.type = "LibraryError" =>
          /\ LastCalls # <<>>
          /\ LastCalls[Len(LastCalls)] = raised.by
          /\ Count(LastCalls, raised.by) = 1
          /\ lastOp.ret = NoRet
          /\ lastOp.op = "none" => pc = "failed"

\* C8 as stated: the only exception the engine raises itself is the
\* missing-source ValueError (a weights_path that is no directory raises none),
\* and every other exception is a library's, propagated as raised.
C8_SingleExplicitFailure ==
    /\ exc.by = "CausalEngine" => exc = ValueError
    /\ LibraryFailuresPropagate

\* C8, amended: the engine raises two exceptions itself, both in the base
\* constructor before any library call: the missing-source ValueError and the
\* AssertionError for a weights_path that is not an existing directory; every
\* other exception is a library's (or the batch lookup's), propagated as
\* raised.
C8_TwoExplicitFailures ==
    /\ exc.by = "CausalEngine" =>
          /\ exc \in {ValueError, AssertionError}
          /\ pc = "failed"
          /\ initLog = <<>>
          /\ ~BaseDone
    /\ exc = ValueError <=>
          (Called /\ lastOp.op = "none" /\ ~HasWeights /\ ~HasObjects /\ ~HasName)
    /\ exc = AssertionError <=>
          (Called /\ lastOp.op = "none" /\ HasWeights /\ ~IsDir(args.weights_path))
    /\ exc.by # "CausalEngine" =>
          exc.type \in {"none", "LibraryError", "KeyError", "TypeError"}
    /\ LibraryFailuresPropagate

\* Reached: the constructor refused a weights_path that is not a directory,
\* although model and tokenizer were passed too.
C8_Witness ==
    /\ pc = "failed"
    /\ exc = AssertionError
    /\ args.weights_path = "/missing"
    /\ HasObjects

(* ------------------------------------------------------------------ *)
(* C9                                                                   *)
(* ------------------------------------------------------------------ *)

\* training_step runs its forward pass under autocast exactly when the stored
\* flag is true; validation_step never does.
AutocastFollowsFlag ==
    /\ (lastOp.op = "training_step" /\ Count(lastOp.calls, FORWARD) = 1) =>
          /\ lastOp.autocast = Truthy(self.load_8bit)
          /\ (Count(lastOp.calls, AUTOCAST) = 1) = Truthy(self.load_8bit)
    /\ lastOp.op = "validation_step" =>
          /\ ~lastOp.autocast
          /\ Count(lastOp.calls, AUTOCAST) = 0

\* The model went through the 8-bit load and prepare_model_for_int8_training.
Loaded8bit == base.model.in8bit /\ base.model.prepared

\* C9 as stated: in every constructed engine the stored flag is true exactly
\* when the model was loaded in 8-bit mode and prepared for int8 training, and
\* autocast follows the flag.
C9_FlagIffLoaded8bit ==
    /\ FieldsSet => (Truthy(self.load_8bit) = Loaded8bit)
    /\ AutocastFollowsFlag

\* C9, amended: the stored flag is the load_8bit argument; for an engine that
\* loaded its model (from weights_path or model_name) it is true exactly when
\* the model was loaded in 8-bit mode and prepared for int8 training, whereas
\* for an adopted model it says nothing about the model; autocast follows the
\* flag.
C9_FlagIsArgument ==
    /\ FieldsSet =>
          /\ self.load_8bit = args.load_8bit
          /\ base.model.via = "from_pretrained" =>
                (Truthy(self.load_8bit) = Loaded8bit)
          /\ base.model.via = "caller" => base.model = args.model
    /\ AutocastFollowsFlag

\* Reached: a training step under autocast on an adopted model that is not an
\* 8-bit model.
C9_Witness ==
    /\ pc = "constructed"
    /\ base.model.via = "caller"
    /\ self.load_8bit = "True"
    /\ ~base.model.in8bit
    /\ lastOp.op = "training_step"
    /\ lastOp.autocast
    /\ exc = NoExc

(* ------------------------------------------------------------------ *)
(* C10                                                                  *)
(* ------------------------------------------------------------------ *)

Injections == CallsOf(initLog, GET_PEFT)
BaseCalls ==
    CallsOf(initLog, FP_MODEL) \cup CallsOf(initLog, PREPARE)
        \cup CallsOf(initLog, FP_TOK)

\* C10: the adapter is injected at most once, only by the CausalLoraEngine
\* constructor, only after the base constructor has run to its end (every
\* load, prepare and tokenizer call precedes the injection), and on the model
\* the base constructor produced; a constructed CausalLoraEngine has exactly
\* one injection, and a failed base constructor is followed by none.
C10_InjectionAfterBase ==
    /\ Cardinality(Injections) <= 1
    /\ \A i \in Injections :
          /\ args.cls = "CausalLoraEngine"
          /\ BaseDone
          /\ initLog[i].obj = base.model
          /\ \A j \in BaseCalls : j < i
          /\ base.model.via = "from_pretrained" =>
                /\ CallsOf(initLog, FP_MODEL) # {}
                /\ CallsOf(initLog, FP_TOK) # {}
                /\ Truthy(args.load_8bit) => CallsOf(initLog, PREPARE) # {}
    /\ LoraConstructed =>
          /\ Cardinality(Injections) = 1
          /\ self.model.adapters = 1
          /\ self.model = GetPeftModel(base.model, PeftConfig(args.target_modules))
    /\ ~BaseDone => (Injections = {} /\ self.model.adapters = 0)
    /\ pc = "lora_init" => Injections = {}

\* Reached: a CausalLoraEngine built from a directory in 8-bit mode: model
\* load, prepare, tokenizer load, then LoraConfig, get_peft_model and
\* print_trainable_parameters.
C10_Witness ==
    /\ LoraConstructed
    /\ args.weights_path = "/ckpt"
    /\ args.load_8bit = "True"
    /\ Len(initLog) = 6
    /\ initLog[2].fn = PREPARE
    /\ initLog[5].fn = GET_PEFT
    /\ self.model.adapters = 1

====
